---- MODULE Spec2Model ----
(***************************************************************************)
(* File integrity monitor (monitor.py) and its dashboard (app.py).         *)
(*                                                                         *)
(* The state is the monitored directory, the hash DB file on disk and the  *)
(* outcome of the last operation of the monitor (return values, log lines  *)
(* written, mails sent).  Every change made to the directory or to the     *)
(* hash DB file from outside discards that outcome, so an outcome is only  *)
(* ever read in the state right after the operation that produced it.      *)
(* An operation of the monitor is one step: the directory and the hash DB  *)
(* file do not change while it runs, and files are visited in PathOrder.   *)
(***************************************************************************)
EXTENDS Integers, Sequences, FiniteSets, TLC

\* Relative paths of the monitored directory, in the order os.walk lists them.
PathOrder == <<"a.txt", "b.txt">>

Paths == {PathOrder[i] : i \in 1..Len(PathOrder)}

\* Distinct file contents are 1..NumContents, modification times 1..MaxMtime.
NumContents == 2

MaxMtime == 2

Contents == 1..NumContents

Mtimes == 1..MaxMtime

VARIABLES
  dir_exists,    \* os.path.isdir(dirpath)
  fs,            \* path -> file of the monitored directory
  hash_db_file,  \* the file at hash_db_path: [exists, text]
  status,        \* how the last operation ended
  auto_update,   \* the auto_update argument of the last cycle
  current,       \* scan_directory's result in the last cycle
  loaded,        \* load_hash_db's result at the start of the last cycle
  parse_failed,  \* the last cycle's load hit json.JSONDecodeError
  db,            \* the in-memory db at the end of the last cycle
  safe,
  corrupted,
  last_anomaly,
  log,           \* the lines the last operation wrote to security.log
  sent,          \* the send_email calls of the last cycle
  healed         \* the last cycle directly follows a returned auto-update
                 \* cycle over the same, fully readable, directory

vars == <<dir_exists, fs, hash_db_file, status, auto_update, current, loaded,
          parse_failed, db, safe, corrupted, last_anomaly, log, sent, healed>>

-----------------------------------------------------------------------------
\* Files and the directory

NoFile == [exists |-> FALSE, content |-> 0, mtime |-> 0, readable |-> FALSE]

File(c, m, r) == [exists |-> TRUE, content |-> c, mtime |-> m, readable |-> r]

EmptyDir == [p \in Paths |-> NoFile]

\* os.path.getsize: content c is c bytes long.
Size(c) == c

\* hashlib sha256 hexdigest of a content, taken to be free of collisions.
sha256(c) == <<"sha256", c>>

\* hash_file: the digest, or the exception open()/read() raises.
hash_file(f) ==
  IF f.exists /\ f.readable
    THEN [ok |-> TRUE, hexdigest |-> sha256(f.content)]
    ELSE [ok |-> FALSE, hexdigest |-> <<"OSError">>]

\* scan_directory: relative path -> metadata, for every file found.
scan_directory(files) ==
  [p \in {q \in Paths : files[q].exists} |->
     [mtime |-> files[p].mtime, size |-> Size(files[p].content)]]

-----------------------------------------------------------------------------
\* The hash DB: a mapping path -> {hash, mtime, size}, stored as JSON text

EmptyDb == [p \in {} |-> 0]

Entry(h, m, s) == [hash |-> h, mtime |-> m, size |-> s]

NoEntry == Entry(<<>>, 0, 0)

DbPut(d, p, e) == [q \in (DOMAIN d) \cup {p} |-> IF q = p THEN e ELSE d[q]]

DbPop(d, p) == [q \in (DOMAIN d) \ {p} |-> d[q]]

\* JSON text as a sequence of tokens.
LBrace == [kind |-> "{", key |-> "", value |-> NoEntry]

RBrace == [kind |-> "}", key |-> "", value |-> NoEntry]

Member(p, e) == [kind |-> "member", key |-> p, value |-> e]

RECURSIVE Members(_, _)
Members(d, i) ==
  IF i > Len(PathOrder) THEN <<>>
  ELSE (IF PathOrder[i] \in DOMAIN d
          THEN <<Member(PathOrder[i], d[PathOrder[i]])>>
          ELSE <<>>) \o Members(d, i + 1)

\* json.dump(db, f): the whole document.
json_dump(d) == <<LBrace>> \o Members(d, 1) \o <<RBrace>>

\* json.load(f): the mapping, or JSONDecodeError on anything but one whole object.
json_load(text) ==
  LET n == Len(text)
      wellformed ==
        /\ n >= 2
        /\ text[1].kind = "{"
        /\ text[n].kind = "}"
        /\ \A i \in 2..(n - 1) : text[i].kind = "member"
      keys == {text[i].key : i \in 2..(n - 1)}
  IN IF wellformed
       THEN [ok |-> TRUE,
             value |-> [p \in keys |->
                          text[CHOOSE i \in 2..(n - 1) :
                                 /\ text[i].key = p
                                 /\ \A j \in (i + 1)..(n - 1) : text[j].key # p
                              ].value]]
       ELSE [ok |-> FALSE, value |-> EmptyDb]

NoHashDb == [exists |-> FALSE, text |-> <<>>]

HashDbFile(text) == [exists |-> TRUE, text |-> text]

\* load_hash_db: {} for a missing file and for one that does not parse.
load_hash_db(file) ==
  IF file.exists
    THEN (IF json_load(file.text).ok
            THEN json_load(file.text).value
            ELSE EmptyDb)
    ELSE EmptyDb

\* save_hash_db: open(path, "w") and json.dump.
save_hash_db(d) == HashDbFile(json_dump(d))

\* What is on disk when the process dies inside save_hash_db after k tokens:
\* open(path, "w") has truncated the file and json.dump has written a prefix.
save_hash_db_killed(d, k) == HashDbFile(SubSeq(json_dump(d), 1, k))

-----------------------------------------------------------------------------
\* SecurityLogger: one line "[ts] LEVEL: File <filename> <message>"

Now == "now"

None == "None"

Line(level, message, filename) ==
  [ts |-> Now, level |-> level, filename |-> filename, message |-> message]

info(lines, message, filename) == Append(lines, Line("INFO:", message, filename))

warning(lines, message, filename) == Append(lines, Line("WARNING:", message, filename))

alert(lines, message, filename) == Append(lines, Line("ALERT:", message, filename))

\* send_email: one call, recorded with what its subject and body name.
Mail(rel, baseline_h, cur_h) == [rel |-> rel, baseline_h |-> baseline_h, cur_h |-> cur_h]

-----------------------------------------------------------------------------
\* perform_check, loop by loop.  st is the function's local state:
\* [db, safe, corrupted, last_anomaly, log, sent, raised].

Start(d) ==
  [db |-> d, safe |-> 0, corrupted |-> 0, last_anomaly |-> None,
   log |-> <<>>, sent |-> <<>>, raised |-> FALSE]

\* NewFileStep with the baseline insertion taken out of "if auto_update".
NewFileStep_AlwaysAdd(rel, files, cur, auto, st) ==
  IF rel \notin DOMAIN cur \/ rel \in DOMAIN st.db \/ st.raised THEN st
  ELSE LET alerted == [st EXCEPT !.log = alert(@, "detected as unknown.", rel),
                                 !.last_anomaly = Now]
           h == hash_file(files[rel])
       IN IF ~h.ok THEN [alerted EXCEPT !.raised = TRUE]
          ELSE [alerted EXCEPT
                  !.db = DbPut(@, rel, Entry(h.hexdigest, cur[rel].mtime, cur[rel].size)),
                  !.log = info(@, "added to baseline (auto-update).", rel)]

\* Body of "for rel, meta in current.items(): if rel not in db".
NewFileStep(rel, files, cur, auto, st) ==
  IF rel \notin DOMAIN cur \/ rel \in DOMAIN st.db \/ st.raised THEN st
  ELSE LET alerted == [st EXCEPT !.log = alert(@, "detected as unknown.", rel),
                                 !.last_anomaly = Now]
           h == hash_file(files[rel])
       IN IF ~h.ok THEN [alerted EXCEPT !.raised = TRUE]
          ELSE IF auto
            THEN [alerted EXCEPT
                    !.db = DbPut(@, rel, Entry(h.hexdigest, cur[rel].mtime, cur[rel].size)),
                    !.log = info(@, "added to baseline (auto-update).", rel)]
            ELSE alerted

\* DeletedStep with db.pop taken out of "if auto_update".
DeletedStep_AlwaysPop(f, cur, auto, st) ==
  IF f \notin DOMAIN st.db \/ f \in DOMAIN cur \/ st.raised THEN st
  ELSE [st EXCEPT !.log = info(alert(@, "deleted from monitored folder.", f),
                               "removed from baseline (auto-update).", f),
                  !.last_anomaly = Now,
                  !.db = DbPop(@, f)]

\* Body of "for f in deleted".
DeletedStep(f, cur, auto, st) ==
  IF f \notin DOMAIN st.db \/ f \in DOMAIN cur \/ st.raised THEN st
  ELSE LET alerted == [st EXCEPT !.log = alert(@, "deleted from monitored folder.", f),
                                 !.last_anomaly = Now]
       IN IF auto
            THEN [alerted EXCEPT
                    !.db = DbPop(@, f),
                    !.log = info(@, "removed from baseline (auto-update).", f)]
            ELSE alerted

\* ModifiedStep that alerts on a changed digest but never rewrites the entry.
ModifiedStep_NoHeal(rel, files, cur, auto, st) ==
  IF rel \notin DOMAIN cur \/ rel \notin DOMAIN st.db \/ st.raised THEN st
  ELSE LET h == hash_file(files[rel])
           baseline_h == st.db[rel].hash
       IN IF ~h.ok
            THEN [st EXCEPT !.log = alert(@, "could not be read:", rel),
                            !.last_anomaly = Now,
                            !.corrupted = @ + 1]
          ELSE IF h.hexdigest = baseline_h
            THEN [st EXCEPT !.log = info(@, "verified OK.", rel),
                            !.safe = @ + 1]
          ELSE [st EXCEPT !.log = warning(@, "integrity failed!", rel),
                          !.last_anomaly = Now,
                          !.corrupted = @ + 1,
                          !.sent = Append(@, Mail(rel, baseline_h, h.hexdigest))]

\* Body of "for rel, meta in current.items(): if rel in db".
ModifiedStep(rel, files, cur, auto, st) ==
  IF rel \notin DOMAIN cur \/ rel \notin DOMAIN st.db \/ st.raised THEN st
  ELSE LET h == hash_file(files[rel])
           baseline_h == st.db[rel].hash
       IN IF ~h.ok
            THEN [st EXCEPT !.log = alert(@, "could not be read:", rel),
                            !.last_anomaly = Now,
                            !.corrupted = @ + 1]
          ELSE IF h.hexdigest = baseline_h
            THEN [st EXCEPT !.log = info(@, "verified OK.", rel),
                            !.safe = @ + 1]
          ELSE LET failed == [st EXCEPT
                                !.log = warning(@, "integrity failed!", rel),
                                !.last_anomaly = Now,
                                !.corrupted = @ + 1,
                                !.sent = Append(@, Mail(rel, baseline_h, h.hexdigest))]
               IN IF auto
                    THEN [failed EXCEPT
                            !.db = DbPut(@, rel, Entry(h.hexdigest, cur[rel].mtime, cur[rel].size)),
                            !.log = info(@, "baseline updated after modification (auto-update).", rel)]
                    ELSE failed

RECURSIVE NewFileLoop(_, _, _, _, _)
NewFileLoop(i, files, cur, auto, st) ==
  IF i > Len(PathOrder) THEN st
  ELSE NewFileLoop(i + 1, files, cur, auto, NewFileStep(PathOrder[i], files, cur, auto, st))

RECURSIVE DeletedLoop(_, _, _, _)
DeletedLoop(i, cur, auto, st) ==
  IF i > Len(PathOrder) THEN st
  ELSE DeletedLoop(i + 1, cur, auto, DeletedStep(PathOrder[i], cur, auto, st))

RECURSIVE ModifiedLoop(_, _, _, _, _)
ModifiedLoop(i, files, cur, auto, st) ==
  IF i > Len(PathOrder) THEN st
  ELSE ModifiedLoop(i + 1, files, cur, auto, ModifiedStep(PathOrder[i], files, cur, auto, st))

\* The three loops of perform_check over the snapshot cur and the loaded db d.
CheckLoops(files, cur, d, auto) ==
  ModifiedLoop(1, files, cur, auto,
    DeletedLoop(1, cur, auto,
      NewFileLoop(1, files, cur, auto, Start(d))))

-----------------------------------------------------------------------------
\* The dashboard (app.py)

\* The marker substrings a rendered log line contains.  File names are taken
\* to contain none of them.
MarkersOf(line) ==
  {line.level}
  \cup (IF line.message = "verified OK." THEN {"verified OK"} ELSE {})
  \cup (IF line.message = "integrity failed!" THEN {"integrity failed"} ELSE {})

\* One iteration of parse_log_for_stats's loop.
ParseLine(acc, line) ==
  IF "INFO:" \in MarkersOf(line) /\ "verified OK" \in MarkersOf(line)
    THEN [acc EXCEPT !.safe = @ + 1]
  ELSE IF "WARNING:" \in MarkersOf(line) /\ "integrity failed" \in MarkersOf(line)
    THEN [acc EXCEPT !.corrupted = @ + 1, !.last_anom = line.ts]
  ELSE IF "ALERT:" \in MarkersOf(line)
    THEN [acc EXCEPT !.corrupted = @ + 1, !.last_anom = line.ts]
  ELSE acc

RECURSIVE ParseFrom(_, _, _)
ParseFrom(lines, i, acc) ==
  IF i > Len(lines) THEN acc ELSE ParseFrom(lines, i + 1, ParseLine(acc, lines[i]))

parse_log_for_stats(lines) ==
  ParseFrom(lines, 1, [safe |-> 0, corrupted |-> 0, last_anom |-> None])

-----------------------------------------------------------------------------
\* Initial state: an empty monitored directory, no hash DB yet.

NoOutcome ==
  /\ status' = "idle"
  /\ auto_update' = FALSE
  /\ current' = EmptyDb
  /\ loaded' = EmptyDb
  /\ parse_failed' = FALSE
  /\ db' = EmptyDb
  /\ safe' = 0
  /\ corrupted' = 0
  /\ last_anomaly' = None
  /\ log' = <<>>
  /\ sent' = <<>>
  /\ healed' = FALSE

Init ==
  /\ dir_exists = TRUE
  /\ fs = EmptyDir
  /\ hash_db_file = NoHashDb
  /\ status = "idle"
  /\ auto_update = FALSE
  /\ current = EmptyDb
  /\ loaded = EmptyDb
  /\ parse_failed = FALSE
  /\ db = EmptyDb
  /\ safe = 0
  /\ corrupted = 0
  /\ last_anomaly = None
  /\ log = <<>>
  /\ sent = <<>>
  /\ healed = FALSE

-----------------------------------------------------------------------------
\* The environment: what happens to the directory and to the hash DB file
\* between two operations of the monitor.

\* A file is created or rewritten; a rewrite keeps the file's permissions.
WriteFile(p, c, m) ==
  /\ dir_exists
  /\ fs' = [fs EXCEPT ![p] = File(c, m, IF fs[p].exists THEN fs[p].readable ELSE TRUE)]
  /\ fs' # fs
  /\ UNCHANGED <<dir_exists, hash_db_file>>
  /\ NoOutcome

DeleteFile(p) ==
  /\ fs[p].exists
  /\ fs' = [fs EXCEPT ![p] = NoFile]
  /\ UNCHANGED <<dir_exists, hash_db_file>>
  /\ NoOutcome

\* Read permission is revoked or granted.
Chmod(p) ==
  /\ fs[p].exists
  /\ fs' = [fs EXCEPT ![p].readable = ~@]
  /\ UNCHANGED <<dir_exists, hash_db_file>>
  /\ NoOutcome

RemoveDir ==
  /\ dir_exists
  /\ dir_exists' = FALSE
  /\ fs' = EmptyDir
  /\ UNCHANGED hash_db_file
  /\ NoOutcome

MakeDir ==
  /\ ~dir_exists
  /\ dir_exists' = TRUE
  /\ UNCHANGED <<fs, hash_db_file>>
  /\ NoOutcome

RemoveHashDb ==
  /\ hash_db_file.exists
  /\ hash_db_file' = NoHashDb
  /\ UNCHANGED <<dir_exists, fs>>
  /\ NoOutcome

\* The hash DB file is left empty, as a failed or cut-off write leaves it.
ClobberHashDb ==
  /\ hash_db_file.exists
  /\ hash_db_file.text # <<>>
  /\ hash_db_file' = HashDbFile(<<>>)
  /\ UNCHANGED <<dir_exists, fs>>
  /\ NoOutcome

-----------------------------------------------------------------------------
\* The monitor

\* main, lines 221-235: with no hash DB file, the baseline is created from
\* the files that can be hashed.
RECURSIVE BaselineLoop(_, _, _, _)
BaselineLoop(i, files, cur, st) ==
  IF i > Len(PathOrder) THEN st
  ELSE LET rel == PathOrder[i]
           h == hash_file(files[rel])
       IN BaselineLoop(i + 1, files, cur,
            IF rel \notin DOMAIN cur THEN st
            ELSE IF h.ok
              THEN [st EXCEPT
                      !.db = DbPut(@, rel, Entry(h.hexdigest, cur[rel].mtime, cur[rel].size)),
                      !.log = info(@, "added to baseline.", rel)]
              ELSE [st EXCEPT
                      !.log = warning(@, "failed to hash during baseline creation:", rel)])

CreateBaseline ==
  /\ ~hash_db_file.exists
  /\ LET cur == scan_directory(fs)
         st == BaselineLoop(1, fs, cur,
                 [Start(EmptyDb) EXCEPT
                    !.log = info(@, "Baseline DB not found. Creating new baseline from current files.", "")])
     IN /\ hash_db_file' = save_hash_db(st.db)
        /\ status' = "baselined"
        /\ current' = cur
        /\ db' = st.db
        /\ log' = st.log
  /\ auto_update' = FALSE
  /\ loaded' = EmptyDb
  /\ parse_failed' = FALSE
  /\ safe' = 0
  /\ corrupted' = 0
  /\ last_anomaly' = None
  /\ sent' = <<>>
  /\ healed' = FALSE
  /\ UNCHANGED <<dir_exists, fs>>

\* Whether the cycle that ended in this state was a returned auto-update
\* cycle in which every file was readable.
HealedNow ==
  /\ status = "returned"
  /\ auto_update
  /\ \A p \in Paths : fs[p].exists => fs[p].readable

\* perform_check on a missing directory: FileNotFoundError before anything.
CheckNoDir(auto) ==
  /\ ~dir_exists
  /\ status' = "FileNotFoundError"
  /\ auto_update' = auto
  /\ current' = EmptyDb
  /\ loaded' = EmptyDb
  /\ parse_failed' = FALSE
  /\ db' = EmptyDb
  /\ safe' = 0
  /\ corrupted' = 0
  /\ last_anomaly' = None
  /\ log' = <<>>
  /\ sent' = <<>>
  /\ healed' = FALSE
  /\ UNCHANGED <<dir_exists, fs, hash_db_file>>

\* The outcome of a cycle whose loops ended in st, as the caller sees it:
\* the counts are returned only if no exception left the function.
CycleOutcome(auto, cur, d, st) ==
  /\ auto_update' = auto
  /\ current' = cur
  /\ loaded' = d
  /\ parse_failed' = (hash_db_file.exists /\ ~json_load(hash_db_file.text).ok)
  /\ db' = st.db
  /\ safe' = st.safe
  /\ corrupted' = st.corrupted
  /\ last_anomaly' = st.last_anomaly
  /\ log' = st.log
  /\ sent' = st.sent
  /\ healed' = HealedNow

\* perform_check: scan, load, the three loops, save, return; an exception of
\* hash_file in the first loop leaves the function before save_hash_db.
PerformCheck(auto) ==
  /\ dir_exists
  /\ LET cur == scan_directory(fs)
         d == load_hash_db(hash_db_file)
         st == CheckLoops(fs, cur, d, auto)
     IN /\ CycleOutcome(auto, cur, d, st)
        /\ IF st.raised
             THEN /\ status' = "OSError"
                  /\ UNCHANGED hash_db_file
             ELSE /\ status' = "returned"
                  /\ hash_db_file' = save_hash_db(st.db)
  /\ UNCHANGED <<dir_exists, fs>>

\* perform_check whose process is killed inside save_hash_db, after the file
\* was opened for writing and k tokens of the document were written.
PerformCheckKilled(auto, k) ==
  /\ dir_exists
  /\ LET cur == scan_directory(fs)
         d == load_hash_db(hash_db_file)
         st == CheckLoops(fs, cur, d, auto)
     IN /\ ~st.raised
        /\ k < Len(json_dump(st.db))
        /\ CycleOutcome(auto, cur, d, st)
        /\ status' = "killed"
        /\ hash_db_file' = save_hash_db_killed(st.db, k)
  /\ UNCHANGED <<dir_exists, fs>>

Next ==
  \/ \E p \in Paths, c \in Contents, m \in Mtimes : WriteFile(p, c, m)
  \/ \E p \in Paths : DeleteFile(p)
  \/ \E p \in Paths : Chmod(p)
  \/ RemoveDir
  \/ MakeDir
  \/ RemoveHashDb
  \/ ClobberHashDb
  \/ CreateBaseline
  \/ \E auto \in BOOLEAN : CheckNoDir(auto)
  \/ \E auto \in BOOLEAN : PerformCheck(auto)

Spec == Init /\ [][Next]_vars

\* The same program, whose process may also be killed while it saves.
MaxTokens == Len(PathOrder) + 2

NextKilled ==
  \/ Next
  \/ \E auto \in BOOLEAN, k \in 0..MaxTokens : PerformCheckKilled(auto, k)

SpecKilled == Init /\ [][NextKilled]_vars

-----------------------------------------------------------------------------
\* Reading the outcome of a cycle

\* How many lines of the given level and message the cycle logged for p.
Occurrences(level, message, p) ==
  Cardinality({i \in 1..Len(log) :
                 /\ log[i].level = level
                 /\ log[i].message = message
                 /\ log[i].filename = p})

NewFileEvents(p) == Occurrences("ALERT:", "detected as unknown.", p)

DeletedFileEvents(p) == Occurrences("ALERT:", "deleted from monitored folder.", p)

VerifiedEvents(p) == Occurrences("INFO:", "verified OK.", p)

CorruptedEvents(p) == Occurrences("WARNING:", "integrity failed!", p)

UnreadableEvents(p) == Occurrences("ALERT:", "could not be read:", p)

ClassificationEvents(p) ==
  NewFileEvents(p) + DeletedFileEvents(p) + VerifiedEvents(p)
    + CorruptedEvents(p) + UnreadableEvents(p)

Notifications(p) == Cardinality({i \in 1..Len(sent) : sent[i].rel = p})

HandledAsNew == {p \in Paths : NewFileEvents(p) > 0}

HandledAsDeleted == {p \in Paths : DeletedFileEvents(p) > 0}

HandledAsInBoth ==
  {p \in Paths : VerifiedEvents(p) + CorruptedEvents(p) + UnreadableEvents(p) > 0}

InBoth == (DOMAIN current) \cap (DOMAIN loaded)

\* The cycle ran on an existing directory and ended, by return or exception.
CycleEnded == status \in {"returned", "OSError"}

Persisted == load_hash_db(hash_db_file)

-----------------------------------------------------------------------------
\* C1: in a check cycle the sets of paths handled as new, as deleted and as
\* in-both are pairwise disjoint, their union is keys(S) \cup keys(B), and
\* every path gets at most one classification event.
C1_ExclusivePartition ==
  status = "returned" =>
    /\ HandledAsNew \cap HandledAsDeleted = {}
    /\ HandledAsNew \cap HandledAsInBoth = {}
    /\ HandledAsDeleted \cap HandledAsInBoth = {}
    /\ HandledAsNew \cup HandledAsDeleted \cup HandledAsInBoth
         = (DOMAIN current) \cup (DOMAIN loaded)
    /\ \A p \in Paths : ClassificationEvents(p) <= 1

\* C2: a path in the snapshot but not in the loaded baseline never counts
\* towards safe or corrupted: safe + corrupted is the number of paths in both.
C2_NewFilesNotCounted ==
  status = "returned" => safe + corrupted = Cardinality(InBoth)

\* C3: a cycle with auto_update = False leaves the persisted baseline with
\* exactly the paths and entries of the baseline it loaded.
C3_NoAutoUpdateKeepsBaseline ==
  [][(status' \in {"returned", "OSError", "FileNotFoundError"} /\ ~auto_update')
       => load_hash_db(hash_db_file') = load_hash_db(hash_db_file)]_vars

\* A returned cycle without auto-update that saw a deleted, a new or a
\* modified file, and saved a non-empty baseline.
C3_Witness ==
  /\ status = "returned"
  /\ ~auto_update
  /\ last_anomaly = Now
  /\ corrupted > 0
  /\ HandledAsNew # {}
  /\ Persisted # EmptyDb

\* C4: for every readable path in both the snapshot and the baseline, a cycle
\* emits one Corrupted event and one notification iff the digest differs, and
\* Verified with no notification when it is equal.
C4_AlertIffDigestDiffers ==
  CycleEnded =>
    \A p \in InBoth :
      fs[p].readable =>
        IF sha256(fs[p].content) # loaded[p].hash
          THEN CorruptedEvents(p) = 1 /\ Notifications(p) = 1 /\ VerifiedEvents(p) = 0
          ELSE VerifiedEvents(p) = 1 /\ safe >= 1
                 /\ CorruptedEvents(p) = 0 /\ Notifications(p) = 0

\* C5: a read failure on a file found by the scan never aborts the cycle:
\* perform_check on an existing directory saves the baseline and returns.
C5_ReadFailureNeverAborts ==
  (dir_exists /\ status \notin {"idle", "baselined"}) =>
    /\ status = "returned"
    /\ hash_db_file = save_hash_db(db)

\* C6: an unreadable path in both the snapshot and the baseline is classified
\* Unreadable, counts as corrupted, advances last_anomaly, is not notified,
\* and keeps its baseline entry.
C6_UnreadableInBoth ==
  CycleEnded =>
    \A p \in InBoth :
      ~fs[p].readable =>
        /\ UnreadableEvents(p) = 1
        /\ corrupted >= 1
        /\ last_anomaly = Now
        /\ Notifications(p) = 0
        /\ p \in DOMAIN Persisted
        /\ Persisted[p] = loaded[p]

C8_SaveAllOrNothing ==
  status = "killed" => Persisted \in {loaded, db}

\* C9: an auto-update cycle in which every file is readable persists exactly
\* the snapshot's paths with their current digests, and the cycle that
\* directly follows it over the unchanged directory emits only Verified
\* events, sends nothing and returns last_anomaly = None.
C9_AutoUpdateHeals ==
  /\ HealedNow =>
       /\ DOMAIN Persisted = DOMAIN current
       /\ \A p \in DOMAIN current : Persisted[p].hash = sha256(fs[p].content)
  /\ healed =>
       /\ status = "returned"
       /\ \A p \in Paths : ClassificationEvents(p) = VerifiedEvents(p)
       /\ \A p \in DOMAIN current : VerifiedEvents(p) = 1
       /\ sent = <<>>
       /\ last_anomaly = None

\* The second of two consecutive cycles over two readable files, the first
\* with auto-update.
C9_Witness ==
  /\ healed
  /\ status = "returned"
  /\ safe = Cardinality(Paths)

\* C10: the counts the dashboard recomputes from the lines of one cycle are
\* the counts perform_check returned for it.
C10_DashboardMatchesReturn ==
  status = "returned" =>
    /\ parse_log_for_stats(log).safe = safe
    /\ parse_log_for_stats(log).corrupted = corrupted

====
